---- MODULE Spec2Model ----
(***************************************************************************)
(* AnkiLive: the Orchestrator (hotkey callbacks, Pending Capture Buffer,   *)
(* export), the Flashcard Input Dialog and the AnkiCardRepository          *)
(* (notes, tracked media files, the media/ and data/ directories and the   *)
(* exported packages), as one state machine.                               *)
(*                                                                         *)
(* Spec is the running program where the file system works and a capture   *)
(* either succeeds or is cancelled.  SpecCapture runs the capturing side   *)
(* under everything the capture tool can do, SpecRecords adds records of   *)
(* other origin to cards/data, SpecBuild adds build_deck called by itself, *)
(* SpecFaults is the Repository where removing and listing files can fail, *)
(* SpecMain starts before main() has resolved the deck name, SpecTyped     *)
(* saves the dialog over the texts a user can type as the answer, and      *)
(* SpecThreads runs the listener thread and the main thread step by step:  *)
(* a capture, create_card and the export with its teardown interleave.     *)
(* SpecClock lets exports follow each other within one second of the      *)
(* clock the package file name is made from; elsewhere every export falls  *)
(* into a second of its own.                                               *)
(*                                                                         *)
(* Text is a sequence of one-character strings.  A screenshot is a natural *)
(* number (the identity of the PIL image), a screenshot file name and a    *)
(* card id are natural numbers standing for the uuid4 hex of the name.     *)
(* An optional value (Python's None or a value) is a sequence of length 0  *)
(* or 1.                                                                   *)
(***************************************************************************)
EXTENDS Integers, Sequences, FiniteSets, TLC

\* ------------------------------------------------------------------ bounds
\* screenshots captured over a run (capture hotkey and Add Screenshot)
MaxShots == 3
\* cards created over a run
MaxCards == 2
\* packages written over a run
MaxExports == 2
\* process restarts over a run
MaxRestarts == 1
\* files whose removal fails in one teardown
MaxFaults == 1

\* ------------------------------------------------------------------ inputs
\* contents the user leaves in the question entry
Questions == { <<>>, <<" ">>, <<" ", "<", " ">> }
\* contents the user leaves in the answer text widget
Answers == { <<>>, <<"&", "\n">> }

None == <<>>
Some(x) == <<x>>

\* the deck name used when the user gives none
DefaultDeckName == << "A", "n", "k", "i", "L", "i", "v", "e" >>

Range(s) == { s[i] : i \in 1..Len(s) }

\* ------------------------------------------------------------------ text
Whitespace == { " ", "\n", "\t" }

RECURSIVE LStrip(_)
LStrip(s) ==
    IF s # <<>> /\ Head(s) \in Whitespace THEN LStrip(Tail(s)) ELSE s

RECURSIVE RStrip(_)
RStrip(s) ==
    IF s # <<>> /\ s[Len(s)] \in Whitespace
    THEN RStrip(SubSeq(s, 1, Len(s) - 1))
    ELSE s

\* str.strip()
Strip(s) == RStrip(LStrip(s))

\* html.escape(s) with quote=True, one character
EscapeChar(c) ==
    CASE c = "&"  -> <<"&", "a", "m", "p", ";">>
      [] c = "<"  -> <<"&", "l", "t", ";">>
      [] c = ">"  -> <<"&", "g", "t", ";">>
      [] c = "\"" -> <<"&", "q", "u", "o", "t", ";">>
      [] c = "'"  -> <<"&", "#", "x", "2", "7", ";">>
      [] OTHER    -> <<c>>

RECURSIVE html_escape(_)
html_escape(s) ==
    IF s = <<>> THEN <<>> ELSE EscapeChar(Head(s)) \o html_escape(Tail(s))

\* markdown.markdown(text, extensions=['extra']) on text of one paragraph
\* without markdown syntax: blank text renders to nothing, other text is
\* stripped and wrapped in one paragraph element.
convert_markdown_to_html(text) ==
    IF Strip(text) = <<>> THEN <<>> ELSE <<"<p>">> \o Strip(text) \o <<"</p>">>

\* f'<img src="{filename}">'
ImgTag(filename) == << "<img src=\"", filename, "\">" >>

RECURSIVE ScreenshotsHtml(_)
ScreenshotsHtml(filenames) ==
    IF filenames = <<>> THEN <<>>
    ELSE ImgTag(Head(filenames)) \o ScreenshotsHtml(Tail(filenames))

\* genanki.Note(model, fields=[question, answer, screenshots])
MakeNote(question, answer, filenames) ==
    [ Question    |-> html_escape(question),
      Answer      |-> convert_markdown_to_html(html_escape(answer)),
      Screenshots |-> ScreenshotsHtml(filenames) ]

VARIABLES
    captured_screenshots,  \* Orchestrator: the Pending Capture Buffer
    pc,                    \* listener thread: "idle", "dialog" (blocked in the open dialog), or inside a capture or create_card
    dlgScreenshots,        \* FlashcardInputDialog.screenshots of the open dialog
    notes,                 \* AnkiCardRepository.notes
    media_files,           \* AnkiCardRepository.media_files
    mediaDir,              \* files of cards/media
    dataDir,               \* JSON records of cards/data
    apkgFiles,             \* the package files of cards/, in the order they were first written
    nextShot,              \* identity of the next captured image
    nextFile,              \* the next uuid4 of a screenshot file name
    nextCard,              \* the next uuid4 of a card id
    restarts,              \* restarts so far
    tempDir,               \* capture files left in the system's temporary directory
    deck_name,             \* the deck name main() resolved, None before it did
    mainPc,                \* main thread: "wait" in the sleep loop, then the steps of the export, "exited"
    creating,              \* the local variables of the create_card last called, None before
    last                   \* the operation that ran last, its arguments and what it returned

vars == << captured_screenshots, pc, dlgScreenshots, notes, media_files,
           mediaDir, dataDir, apkgFiles, nextShot, nextFile, nextCard, restarts,
           tempDir, deck_name, mainPc, creating, last >>

orchVars == << captured_screenshots, pc, dlgScreenshots >>
repoVars == << notes, media_files, mediaDir, dataDir, apkgFiles >>
threadVars == << mainPc, creating >>

\* a second of the clock later than the second any package in files was
\* written in (the seconds are counted from 1)
LaterSecond(files) ==
    LET stamps == { files[i].name.stamp : i \in 1..Len(files) }
    IN  IF stamps = {} THEN 1
        ELSE 1 + CHOOSE t \in stamps : \A u \in stamps : u <= t

\* the Repository and its working directory as one value, and (now) the
\* second datetime.now() shows to an export: one in which no package on disk
\* was written, unless an action says otherwise
Repo == [ notes |-> notes, media_files |-> media_files, mediaDir |-> mediaDir,
          dataDir |-> dataDir, apkgFiles |-> apkgFiles, deck_name |-> deck_name[1],
          now |-> LaterSecond(apkgFiles) ]

SetRepo(r) ==
    /\ notes' = r.notes
    /\ media_files' = r.media_files
    /\ mediaDir' = r.mediaDir
    /\ dataDir' = r.dataDir
    /\ apkgFiles' = r.apkgFiles

\* op names the operation, so two records of different operations differ in
\* op, whatever their arguments and results are; escaped: whether an
\* exception left the operation instead of a return
OpE(op, arg, ret, escaped) ==
    [ op |-> op, arg |-> arg, ret |-> ret, escaped |-> escaped ]

Op(op, arg, ret) == OpE(op, arg, ret, FALSE)


\* ------------------------------------------------------ AnkiCardRepository

\* A JSON record <id>.json of cards/data as create_card writes it (created_at
\* is not modelled).  shape tells the three kinds of file load_saved_cards
\* can meet apart: "new" has the list "screenshots", "legacy" the single
\* "screenshot" of older records, "malformed" is not JSON at all.
CardData(card_id, question, answer, filenames) ==
    [ id |-> card_id, shape |-> "new", question |-> question, answer |-> answer,
      screenshots |-> filenames ]

\* a record of the older shape: one "screenshot" instead of "screenshots"
LegacyCardData(card_id, question, answer, filename) ==
    [ id |-> card_id, shape |-> "legacy", question |-> question, answer |-> answer,
      screenshots |-> << filename >> ]

\* a file <id>.json that json.load cannot read
MalformedCardData(card_id) ==
    [ id |-> card_id, shape |-> "malformed", question |-> <<>>, answer |-> <<>>,
      screenshots |-> <<>> ]

\* load_saved_cards over the records in os.listdir order.  attrsSet says
\* whether self.model and self.media_files are assigned when it runs: without
\* them building the Note raises AttributeError inside the try, and the
\* record is logged and skipped, as is a file json.load raises on.  A legacy
\* record gives the one <img> tag of its "screenshot".  acc is
\* [notes, media_files].
RECURSIVE load_saved_cards(_, _, _, _)
load_saved_cards(order, onDisk, attrsSet, acc) ==
    IF order = <<>> THEN acc
    ELSE LET card_data == Head(order)
             paths == SelectSeq(card_data.screenshots, LAMBDA f : f \in onDisk)
             RECURSIVE Register(_, _)
             Register(fs, tracked) ==
                 IF fs = <<>> THEN tracked
                 ELSE Register(Tail(fs),
                               IF Head(fs) \in Range(tracked) THEN tracked
                               ELSE Append(tracked, Head(fs)))
             loaded == [ notes |-> Append(acc.notes,
                                          MakeNote(card_data.question, card_data.answer,
                                                   card_data.screenshots)),
                         media_files |-> Register(paths, acc.media_files) ]
         IN  load_saved_cards(Tail(order), onDisk, attrsSet,
                              IF attrsSet /\ card_data.shape # "malformed"
                              THEN loaded ELSE acc)

\* AnkiCardRepository.__init__ on a working directory: load_saved_cards runs
\* (line 99) before self.model (line 102) is assigned, and then self.notes
\* (line 105) and self.media_files (line 108) are assigned empty lists.
RepositoryInit(order, onDisk) ==
    LET loaded == load_saved_cards(order, onDisk, FALSE,
                                   [ notes |-> <<>>, media_files |-> <<>> ])
    IN  [ loaded EXCEPT !.notes = <<>>, !.media_files = <<>> ]

\* create_card writing the escaped question and the rendered answer to the
\* record (mutant)
create_card_RenderedRecord(repo, question, answer, screenshots, file0, card_id, failAt) ==
    LET n == Len(screenshots)
        saved == IF failAt \in 1..n THEN failAt - 1 ELSE n
        filenames == [ i \in 1..saved |-> file0 + i - 1 ]
        afterShots == [ repo EXCEPT !.mediaDir = @ \cup Range(filenames),
                                    !.media_files = @ \o filenames ]
        withNote == [ afterShots EXCEPT
                        !.notes = Append(@, MakeNote(question, answer, filenames)) ]
        withRecord == [ withNote EXCEPT
                        !.dataDir = @ \cup { CardData(card_id, html_escape(question),
                                                      convert_markdown_to_html(html_escape(answer)),
                                                      filenames) } ]
    IN  IF failAt \in 1..n
        THEN [ repo |-> afterShots, ret |-> None, raised |-> TRUE ]
        ELSE IF failAt = n + 1
        THEN [ repo |-> withNote, ret |-> None, raised |-> TRUE ]
        ELSE [ repo |-> withRecord, ret |-> Some(card_id), raised |-> FALSE ]

\* create_card.  file0 and card_id are the fresh uuid4 values; failAt = 0 is a
\* run without error, failAt = k in 1..n makes the k-th screenshot.save raise
\* and failAt = n + 1 makes writing the JSON record raise.
\* Returns the Repository, the card id (None when it raised) and whether it
\* raised.
create_card(repo, question, answer, screenshots, file0, card_id, failAt) ==
    LET n == Len(screenshots)
        saved == IF failAt \in 1..n THEN failAt - 1 ELSE n
        filenames == [ i \in 1..saved |-> file0 + i - 1 ]
        afterShots == [ repo EXCEPT !.mediaDir = @ \cup Range(filenames),
                                    !.media_files = @ \o filenames ]
        withNote == [ afterShots EXCEPT
                        !.notes = Append(@, MakeNote(question, answer, filenames)) ]
        withRecord == [ withNote EXCEPT
                        !.dataDir = @ \cup { CardData(card_id, question, answer, filenames) } ]
    IN  IF failAt \in 1..n
        THEN [ repo |-> afterShots, ret |-> None, raised |-> TRUE ]
        ELSE IF failAt = n + 1
        THEN [ repo |-> withNote, ret |-> None, raised |-> TRUE ]
        ELSE [ repo |-> withRecord, ret |-> Some(card_id), raised |-> FALSE ]

\* create_and_save_card delegates to create_card
create_and_save_card(repo, question, answer, screenshots, file0, card_id, failAt) ==
    create_card(repo, question, answer, screenshots, file0, card_id, failAt)

ANKI_DECK_ID == 2059400110

\* build_deck handing its notes over to the deck (mutant)
build_deck_Draining(repo) ==
    [ repo |-> [ repo EXCEPT !.notes = <<>> ],
      deck |-> [ deck_id |-> ANKI_DECK_ID, name |-> repo.deck_name,
                 notes |-> repo.notes ] ]

\* build_deck: the Repository after the call and the deck built, a new
\* genanki.Deck with every Note of the Note list added in order
build_deck(repo) ==
    [ repo |-> repo,
      deck |-> [ deck_id |-> ANKI_DECK_ID, name |-> repo.deck_name,
                 notes |-> repo.notes ] ]

\* What can go wrong in teardown: the tracked media files (media), the
\* records (data, by id) and the packages (apkg, by position) whose os.remove
\* raises, and whether os.listdir of cards/data (listdir) or of cards
\* (listdirCards) raises.
NoFault == [ media |-> {}, data |-> {}, apkg |-> {}, listdir |-> FALSE,
             listdirCards |-> FALSE ]

\* the elements of seq at the positions in kept, in order
RECURSIVE SubSeqAt(_, _)
SubSeqAt(seq, kept) ==
    IF seq = <<>> THEN <<>>
    ELSE SubSeqAt(SubSeq(seq, 1, Len(seq) - 1), kept)
         \o (IF Len(seq) \in kept THEN << seq[Len(seq)] >> ELSE << >>)

\* teardown without the try around each os.remove: the first deletion that
\* fails ends it (mutant)
teardown_NoTry(repo, keep_exported_deck, fault) ==
    IF fault.media # {} \/ fault.data # {} \/ fault.listdir
       \/ (~keep_exported_deck /\ (fault.apkg # {} \/ fault.listdirCards))
    THEN [ repo |-> repo, raised |-> TRUE ]
    ELSE [ repo |-> [ repo EXCEPT
                        !.mediaDir = @ \ Range(repo.media_files),
                        !.dataDir = {},
                        !.apkgFiles = IF keep_exported_deck THEN @ ELSE <<>>,
                        !.notes = <<>>, !.media_files = <<>> ],
           raised |-> FALSE ]

\* teardown.  Returns the Repository and whether it raised: os.listdir at
\* lines 300 and 310 is outside every try, os.remove is inside one.
teardown(repo, keep_exported_deck, fault) ==
    LET afterMedia == [ repo EXCEPT
                          !.mediaDir = @ \ (Range(repo.media_files) \ fault.media) ]
        afterData == [ afterMedia EXCEPT
                          !.dataDir = { r \in @ : r.id \in fault.data } ]
        afterDecks == IF keep_exported_deck THEN afterData
                      ELSE [ afterData EXCEPT !.apkgFiles = SubSeqAt(@, fault.apkg) ]
    IN  IF fault.listdir THEN [ repo |-> afterMedia, raised |-> TRUE ]
        ELSE IF ~keep_exported_deck /\ fault.listdirCards
        THEN [ repo |-> afterData, raised |-> TRUE ]
        ELSE [ repo |-> [ afterDecks EXCEPT !.notes = <<>>, !.media_files = <<>> ],
               raised |-> FALSE ]

\* genanki.Package written without its media files (mutant)
Package_NoMedia(deck, files) == [ notes |-> deck.notes, media |-> <<>> ]

\* genanki.Package(deck) with media_files, as written to the .apkg file
Package(deck, files) == [ notes |-> deck.notes, media |-> files ]

\* str.replace(' ', '_')
Underscored(name) == [ i \in 1..Len(name) |-> IF name[i] = " " THEN "_" ELSE name[i] ]

\* export_deck, lines 252-262: the file name synthesized from the deck name
\* and the clock, strftime("%Y%m%d_%H%M%S") giving the second and no more
ExportFilename(name, now) == [ deck |-> Underscored(name), stamp |-> now ]

\* package.write_to_file(filepath) on the files of cards/: a file of that name
\* is replaced, otherwise the file is new
write_to_file(files, filename, package) ==
    LET written == [ name |-> filename, notes |-> package.notes,
                     media |-> package.media ]
    IN  IF \E i \in 1..Len(files) : files[i].name = filename
        THEN [ i \in 1..Len(files) |->
                   IF files[i].name = filename THEN written ELSE files[i] ]
        ELSE Append(files, written)

\* the position in files of the file called filename
PathOf(files, filename) == CHOOSE i \in 1..Len(files) : files[i].name = filename

\* package.write_to_file succeeds only if the environment lets it and every
\* tracked media file can be read from disk.
WriteSucceeds(repo, writeOk) ==
    writeOk /\ Range(repo.media_files) \subseteq repo.mediaDir

\* export_deck with teardown in a finally clause: it also runs when the write
\* raised (mutant)
export_deck_TeardownOnFailure(repo, writeOk, fault) ==
    IF ~WriteSucceeds(repo, writeOk)
    THEN [ repo |-> teardown(build_deck(repo).repo, TRUE, fault).repo, ret |-> None,
           raised |-> TRUE ]
    ELSE LET built == build_deck(repo)
             filename == ExportFilename(repo.deck_name, repo.now)
             written == [ built.repo EXCEPT
                            !.apkgFiles = write_to_file(@, filename,
                                              Package(built.deck, repo.media_files)) ]
             torn == teardown(written, TRUE, fault)
         IN  [ repo |-> torn.repo,
               ret |-> IF torn.raised THEN None
                       ELSE Some(PathOf(written.apkgFiles, filename)),
               raised |-> torn.raised ]

\* AnkiCardRepository.export_deck.  Returns the Repository, the path (the
\* index of the package in apkgFiles; None when it raised) and whether it
\* raised.
export_deck(repo, writeOk, fault) ==
    IF ~WriteSucceeds(repo, writeOk)
    THEN [ repo |-> build_deck(repo).repo, ret |-> None, raised |-> TRUE ]
    ELSE LET built == build_deck(repo)
             filename == ExportFilename(repo.deck_name, repo.now)
             written == [ built.repo EXCEPT
                            !.apkgFiles = write_to_file(@, filename,
                                              Package(built.deck, repo.media_files)) ]
             torn == teardown(written, TRUE, fault)
         IN  [ repo |-> torn.repo,
               ret |-> IF torn.raised THEN None
                       ELSE Some(PathOf(written.apkgFiles, filename)),
               raised |-> torn.raised ]


\* ------------------------------------------------------ FlashcardInputDialog

\* answer_text.get("1.0", tk.END): the widget's content and the newline Tk adds
TextGet(content) == content \o <<"\n">>

\* on_save removing every trailing newline, as answer.rstrip('\n') would
\* (mutant)
AnswerOf_NoTrailingNewlines(content) ==
    LET RECURSIVE Drop(_)
        Drop(s) == IF s # <<>> /\ s[Len(s)] = "\n"
                   THEN Drop(SubSeq(s, 1, Len(s) - 1)) ELSE s
    IN  Drop(TextGet(content))

\* on_save, lines 273-276: the last character is removed if it is a newline
AnswerOf(content) ==
    LET answer == TextGet(content)
    IN  IF answer # <<>> /\ answer[Len(answer)] = "\n"
        THEN SubSeq(answer, 1, Len(answer) - 1)
        ELSE answer

\* on_save without the screenshots check (mutant)
SaveRejected_QuestionOnly(entry, screenshots) == Strip(entry) = <<>>

\* on_save, lines 278-286: what makes Save show an error and return
SaveRejected(entry, screenshots) == Strip(entry) = <<>> \/ screenshots = <<>>

\* on_save testing the untrimmed entry (mutant)
on_save_UntrimmedCheck(entry, content, screenshots) ==
    IF entry = <<>> \/ screenshots = <<>> THEN None
    ELSE Some([ question |-> Strip(entry), answer |-> AnswerOf(content),
                screenshots |-> screenshots ])

\* on_save: the dialog's result, None when the input is rejected
on_save(entry, content, screenshots) ==
    IF SaveRejected(entry, screenshots) THEN None
    ELSE Some([ question |-> Strip(entry), answer |-> AnswerOf(content),
                screenshots |-> screenshots ])

\* on_remove_screenshot deleting in ascending index order, the later indices
\* then pointing one too far (mutant)
RECURSIVE RemoveAscending(_, _)
RemoveAscending(screenshots, selected) ==
    IF selected = {} THEN screenshots
    ELSE LET i == CHOOSE k \in selected : \A j \in selected : k <= j
         IN  RemoveAscending(
                 IF 1 <= i /\ i <= Len(screenshots)
                 THEN SubSeq(screenshots, 1, i - 1)
                      \o SubSeq(screenshots, i + 1, Len(screenshots))
                 ELSE screenshots,
                 selected \ {i})

on_remove_screenshot_Ascending(screenshots, selected) ==
    RemoveAscending(screenshots, selected)

\* on_remove_screenshot: the screenshots left when the checkboxes at the
\* positions in selected are checked (deleted in descending index order)
RECURSIVE RemoveDescending(_, _)
RemoveDescending(screenshots, selected) ==
    IF selected = {} THEN screenshots
    ELSE LET i == CHOOSE k \in selected : \A j \in selected : j <= k
         IN  RemoveDescending(
                 IF 1 <= i /\ i <= Len(screenshots)
                 THEN SubSeq(screenshots, 1, i - 1)
                      \o SubSeq(screenshots, i + 1, Len(screenshots))
                 ELSE screenshots,
                 selected \ {i})

on_remove_screenshot(screenshots, selected) == RemoveDescending(screenshots, selected)

\* ---------------------------------------------- DeckNameDialog and main()

\* what the user leaves in the entry of the deck-name dialog (it is
\* pre-filled with the default name)
DeckNameTexts == { DefaultDeckName, <<>>, <<" ">>, <<" ", "D", " ">> }

\* How the deck-name dialog ends: OK (or Return) with a text in the entry,
\* Cancel, the window being closed, or an exception somewhere in
\* get_deck_name's try block (Tk cannot start, the window cannot be shown or
\* destroyed).
GuiOutcomes ==
    { [ kind |-> "ok", text |-> t ] : t \in DeckNameTexts }
    \cup { [ kind |-> k, text |-> DefaultDeckName ] : k \in { "cancel", "close", "error" } }

\* What standard input gives the console prompt: a line, Ctrl+C or end of input
ConsoleInputs ==
    { [ kind |-> "line", text |-> t ] : t \in { <<>>, <<" ", "D", " ">> } }
    \cup { [ kind |-> k, text |-> <<>> ] : k \in { "interrupt", "eof" } }

\* on_ok that keeps the text as typed (mutant)
DeckNameDialog_on_ok_Untrimmed(text) ==
    IF text = <<>> THEN DefaultDeckName ELSE text

\* DeckNameDialog.on_ok: the dialog's result
DeckNameDialog_on_ok(text) ==
    LET name == Strip(text)
    IN  IF name = <<>> THEN DefaultDeckName ELSE name

\* DeckNameDialog.on_cancel (also bound to closing the window): the result
DeckNameDialog_on_cancel == DefaultDeckName

\* get_deck_name: every Exception raised in its body is caught at line 159
\* and default_name returned, so it never raises.
get_deck_name(gui, default_name) ==
    [ ret |-> CASE gui.kind = "ok" -> DeckNameDialog_on_ok(gui.text)
                [] gui.kind \in { "cancel", "close" } -> DeckNameDialog_on_cancel
                [] OTHER -> default_name,
      raised |-> FALSE ]

\* main.get_deck_name_fallback: the console prompt
get_deck_name_fallback(console) ==
    IF console.kind = "line"
    THEN IF Strip(console.text) = <<>> THEN DefaultDeckName ELSE Strip(console.text)
    ELSE DefaultDeckName

\* main, lines 35-44: the deck name, and whether the console prompt was shown
ResolveDeckName(gui, console) ==
    LET got == get_deck_name(gui, DefaultDeckName)
    IN  IF got.raised
        THEN [ name |-> get_deck_name_fallback(console), asked |-> TRUE ]
        ELSE [ name |-> got.ret, asked |-> FALSE ]

\* --------------------------------------------------- GnomeScreenshotClient

\* What the environment does during one get_screenshot call:
\*   probe   'gnome-screenshot --version' (lines 46-51): "ok", "missing"
\*           (FileNotFoundError) or "fails" (CalledProcessError)
\*   exit    the exit code of 'gnome-screenshot -a -f temp_path' (lines 65-66)
\*   output  what temp_path holds when that command has ended: "image",
\*           "garbage" (not decodable), "empty" (as created) or "missing"
\* When the probe does not succeed the capture command is not reached and exit
\* and output say nothing.
CaptureEnvs ==
    { [ probe |-> p, exit |-> 0, output |-> "empty" ] : p \in { "missing", "fails" } }
    \cup { [ probe |-> "ok", exit |-> e, output |-> o ] :
              e \in { 0, 1 }, o \in { "image", "garbage", "empty", "missing" } }

\* a capture that works, and one whose area selection the user cancelled
Captured == [ probe |-> "ok", exit |-> 0, output |-> "image" ]
Cancelled == [ probe |-> "ok", exit |-> 1, output |-> "empty" ]
UsualEnvs == { Captured, Cancelled }

\* the temp file is never removed (mutant)
UnlinkIfExists_Never(exists) == exists

\* get_screenshot, lines 90-94 (finally): whether temp_path exists afterwards
UnlinkIfExists(exists) == IF exists THEN FALSE ELSE exists

\* GnomeScreenshotClient.get_screenshot.  raised is the RuntimeError, ran is
\* whether the capture command was run, temp_exists whether temp_path exists
\* when the call ends.
get_screenshot(env, image) ==
    LET probed == env.probe = "ok"
        \* temp_path: created empty (lines 39-40), then what the capture leaves
        file == IF probed THEN env.output ELSE "empty"
        raised == \/ ~probed                           \* lines 52-61
                  \/ file \in { "missing", "empty" }    \* lines 69-70
                  \/ file # "image"                     \* line 73, Image.open
    IN  [ ret |-> IF raised THEN None ELSE Some(image),
          raised |-> raised,
          ran |-> probed,
          temp_exists |-> UnlinkIfExists(file # "missing") ]

\* ------------------------------------------------------------ Orchestrator

\* the Orchestrator and its Repository on an empty working directory
InitOrchestrator ==
    /\ captured_screenshots = <<>>
    /\ pc = "idle"
    /\ dlgScreenshots = <<>>
    /\ notes = <<>>
    /\ media_files = <<>>
    /\ mediaDir = {}
    /\ dataDir = {}
    /\ apkgFiles = <<>>
    /\ nextShot = 1
    /\ nextFile = 1
    /\ nextCard = 1
    /\ restarts = 0
    /\ tempDir = {}
    /\ mainPc = "wait"
    /\ creating = None
    /\ last = Op("__init__", <<>>, None)

\* the state after construction, the user having kept the default deck name
Init ==
    /\ InitOrchestrator
    /\ deck_name = Some(DefaultDeckName)

\* capture_screenshot without the except clause (mutant)
capture_screenshot_NoCatch(got) ==
    [ ret |-> got.ret, escaped |-> got.raised ]

\* Orchestrator.capture_screenshot: the image, or None when get_screenshot
\* raised (the exception is caught and logged)
capture_screenshot(got) ==
    [ ret |-> IF got.raised THEN None ELSE got.ret, escaped |-> FALSE ]

\* capture_and_store_screenshot storing a placeholder for a failed capture
\* (mutant)
capture_and_store_screenshot_Placeholder(buffer, shot) ==
    IF shot = None THEN Append(buffer, 0) ELSE Append(buffer, shot[1])

\* capture_and_store_screenshot inserting at the front (mutant)
capture_and_store_screenshot_Prepend(buffer, shot) ==
    IF shot = None THEN buffer ELSE <<shot[1]>> \o buffer

\* capture_and_store_screenshot: the buffer after capture_screenshot returned
\* shot (None when get_screenshot raised)
capture_and_store_screenshot(buffer, shot) ==
    IF shot = None THEN buffer ELSE Append(buffer, shot[1])

\* reset_screenshots dropping only the most recent screenshot (mutant)
reset_screenshots_DropLast(buffer) ==
    IF buffer # <<>> THEN SubSeq(buffer, 1, Len(buffer) - 1) ELSE buffer

\* reset_screenshots
reset_screenshots(buffer) == IF buffer # <<>> THEN <<>> ELSE buffer

\* hotkey callbacks each running on a thread of their own (mutant)
ListenerFree_Always(position) == TRUE

\* The listener thread calls on_key_press for one key event at a time and the
\* hotkey callbacks run inside that call: a callback starts only when the
\* thread is not inside another one.
ListenerFree(position) == position = "idle"

\* The capture hotkey: capture_and_store_screenshot on the listener thread,
\* the environment of the capture being one of envs.
CaptureHotkeyIn(envs) ==
    /\ ListenerFree(pc)
    /\ nextShot <= MaxShots
    /\ \E env \in envs :
         LET got == get_screenshot(env, nextShot)
             shot == capture_screenshot(got)
         IN  /\ captured_screenshots' =
                    capture_and_store_screenshot(captured_screenshots, shot.ret)
             /\ nextShot' = IF shot.ret # None THEN nextShot + 1 ELSE nextShot
             /\ tempDir' = IF got.temp_exists THEN tempDir \cup { nextShot } ELSE tempDir
             /\ last' = OpE("capture_and_store_screenshot", << env, got >>,
                            shot.ret, shot.escaped)
    /\ UNCHANGED << pc, dlgScreenshots, repoVars, nextFile, nextCard, restarts,
                    deck_name >>
    /\ UNCHANGED threadVars

CaptureHotkey == CaptureHotkeyIn(UsualEnvs)

\* The reset hotkey: reset_screenshots on the listener thread (the argument
\* recorded is the count it prints).
ResetHotkey ==
    /\ ListenerFree(pc)
    /\ captured_screenshots' = reset_screenshots(captured_screenshots)
    /\ last' = Op("reset_screenshots", << Len(captured_screenshots) >>, None)
    /\ UNCHANGED << pc, dlgScreenshots, repoVars, nextShot, nextFile, nextCard,
                    restarts, tempDir, deck_name >>
    /\ UNCHANGED threadVars

\* open_card_dialog without the check for an empty buffer (mutant)
DialogOpens_Always(buffer) == TRUE

\* open_card_dialog, lines 154-166: whether the dialog is opened
DialogOpens(buffer) == buffer # <<>>

\* open_card_dialog, lines 163-166: the buffer while get_flashcard_input blocks
BufferOnOpen(buffer) == buffer

\* open_card_dialog resetting the buffer before the result is looked at (mutant)
BufferOnReturn_AlwaysCleared(buffer, result) == <<>>

\* open_card_dialog, lines 172-181: the buffer once the dialog returned result
BufferOnReturn(buffer, result) == IF result = None THEN buffer ELSE <<>>

\* The create-card hotkey: open_card_dialog up to the blocking dialog, which
\* gets a copy of the buffer.
CreateCardHotkey ==
    /\ ListenerFree(pc)
    /\ IF DialogOpens(captured_screenshots)
       THEN /\ pc' = "dialog"
            /\ dlgScreenshots' = captured_screenshots
            /\ captured_screenshots' = BufferOnOpen(captured_screenshots)
            /\ last' = Op("open_card_dialog", <<>>, Some("open"))
       ELSE /\ last' = Op("open_card_dialog", <<>>, None)
            /\ UNCHANGED << pc, dlgScreenshots, captured_screenshots >>
    /\ UNCHANGED << repoVars, nextShot, nextFile, nextCard, restarts, tempDir,
                    deck_name >>
    /\ UNCHANGED threadVars

\* open_card_dialog handing the buffer itself to the dialog, which then edits
\* the one list both hold (mutant)
BufferWhileDialogEdits_Shared(buffer, screenshots) == screenshots

\* open_card_dialog, line 164: the dialog is given a copy of the buffer
\* (which FlashcardInputDialog keeps as its list, line 49), so the buffer is
\* what it was when the dialog's list has become screenshots
BufferWhileDialogEdits(buffer, screenshots) == buffer

\* on_add_screenshot, lines 226-232: the dialog's screenshots after the
\* callback returned shot
on_add_screenshot(screenshots, shot) ==
    IF shot = None THEN screenshots ELSE Append(screenshots, shot[1])

\* Add Screenshot in the open dialog: on_add_screenshot with the Orchestrator's
\* capture_screenshot as callback, the environment of the capture being one
\* of envs.
DlgAddScreenshotIn(envs) ==
    /\ pc = "dialog"
    /\ nextShot <= MaxShots
    /\ \E env \in envs :
         LET got == get_screenshot(env, nextShot)
             shot == capture_screenshot(got)
         IN  /\ dlgScreenshots' = on_add_screenshot(dlgScreenshots, shot.ret)
             /\ captured_screenshots' =
                    BufferWhileDialogEdits(captured_screenshots,
                                           on_add_screenshot(dlgScreenshots, shot.ret))
             /\ nextShot' = IF shot.ret # None THEN nextShot + 1 ELSE nextShot
             /\ tempDir' = IF got.temp_exists THEN tempDir \cup { nextShot } ELSE tempDir
             /\ last' = OpE("on_add_screenshot", << env, got >>, shot.ret, shot.escaped)
    /\ UNCHANGED << pc, repoVars, nextFile, nextCard, restarts, deck_name >>
    /\ UNCHANGED threadVars

DlgAddScreenshot == DlgAddScreenshotIn(UsualEnvs)

\* Remove Selected in the open dialog.
DlgRemoveSelected ==
    /\ pc = "dialog"
    /\ \E selected \in SUBSET (1..Len(dlgScreenshots)) :
         /\ dlgScreenshots' = on_remove_screenshot(dlgScreenshots, selected)
         /\ captured_screenshots' =
                BufferWhileDialogEdits(captured_screenshots,
                                       on_remove_screenshot(dlgScreenshots, selected))
         /\ last' = Op("on_remove_screenshot", <<selected>>, None)
    /\ UNCHANGED << pc, repoVars, nextShot, nextFile, nextCard, restarts,
                    tempDir, deck_name >>
    /\ UNCHANGED threadVars

\* open_card_dialog, lines 184-193, without the except clause (mutant)
SaveCard_NoCatch(made) ==
    [ card_id |-> made.ret, raised |-> made.raised, escaped |-> made.raised ]

\* open_card_dialog, lines 184-193: the persistence step around what
\* create_and_save_card did; its exception is caught and printed.
SaveCard(made) ==
    [ card_id |-> made.ret, raised |-> made.raised, escaped |-> FALSE ]

\* Save in the open dialog, the answer widget holding one of contents.  A rejected Save leaves the dialog open with its
\* result None; an accepted one sets the result and closes it, and open_card_dialog goes on (lines 172-193):
\* the buffer is reset and the card is persisted, an error of
\* create_and_save_card being caught.
DlgSaveIn(contents) ==
    /\ pc = "dialog"
    /\ \E entry \in Questions, content \in contents :
         LET result == on_save(entry, content, dlgScreenshots)
         IN  IF result = None
             THEN /\ last' = Op("on_save", <<entry, content>>,
                                 [ result |-> None, card_id |-> None,
                                   raised |-> FALSE ])
                  /\ UNCHANGED << captured_screenshots, pc, dlgScreenshots,
                                  repoVars, nextFile, nextCard >>
             ELSE /\ nextCard <= MaxCards
                  /\ \E failAt \in 0..(Len(dlgScreenshots) + 1) :
                       LET made == create_and_save_card(Repo, result[1].question,
                                       result[1].answer, result[1].screenshots,
                                       nextFile, nextCard, failAt)
                           saved == SaveCard(made)
                       IN  /\ SetRepo(made.repo)
                           /\ nextFile' = nextFile + Len(made.repo.media_files)
                                                   - Len(media_files)
                           /\ nextCard' = IF failAt \in 1..Len(dlgScreenshots)
                                          THEN nextCard ELSE nextCard + 1
                           /\ last' = OpE("on_save", <<entry, content>>,
                                          [ result |-> result,
                                            card_id |-> saved.card_id,
                                            raised |-> saved.raised ],
                                          saved.escaped)
                  /\ pc' = "idle"
                  /\ dlgScreenshots' = <<>>
                  /\ captured_screenshots' = BufferOnReturn(captured_screenshots, result)
    /\ UNCHANGED << nextShot, restarts, tempDir, deck_name >>
    /\ UNCHANGED threadVars

DlgSave == DlgSaveIn(Answers)

\* on_cancel keeping what the dialog holds as its result (mutant)
on_cancel_KeepsInput(screenshots) ==
    Some([ question |-> <<"<">>, answer |-> <<>>, screenshots |-> screenshots ])

\* on_cancel, lines 294-300: the dialog's result
on_cancel(screenshots) == None

\* Cancel (or closing the window) in the open dialog: on_cancel, and
\* open_card_dialog goes on with the result (lines 172-193); it returns at
\* line 174 when the result is None.
DlgCancel ==
    /\ pc = "dialog"
    /\ pc' = "idle"
    /\ dlgScreenshots' = <<>>
    /\ LET result == on_cancel(dlgScreenshots)
       IN  /\ captured_screenshots' = BufferOnReturn(captured_screenshots, result)
           /\ IF result = None
              THEN /\ last' = Op("on_cancel", <<>>, None)
                   /\ UNCHANGED << repoVars, nextFile, nextCard >>
              ELSE LET made == create_and_save_card(Repo, result[1].question,
                                   result[1].answer, result[1].screenshots,
                                   nextFile, nextCard, 0)
                   IN  /\ SetRepo(made.repo)
                       /\ nextFile' = nextFile + Len(result[1].screenshots)
                       /\ nextCard' = nextCard + 1
                       /\ last' = Op("on_cancel", <<>>, made.ret)
    /\ UNCHANGED << nextShot, restarts, tempDir, deck_name >>
    /\ UNCHANGED threadVars

\* Orchestrator.export_deck without the zero-notes guard (mutant)
ExportAttempted_Always(repo) == TRUE

\* Orchestrator.export_deck, line 206: whether the Repository's export is called
ExportAttempted(repo) == Len(repo.notes) # 0

\* Orchestrator.export_deck: the Repository and the returned path; an error of
\* the Repository's export_deck (raised) is caught and no path returned.
OrchestratorExport(repo, writeOk, fault) ==
    IF ExportAttempted(repo)
    THEN LET done == export_deck(repo, writeOk, fault)
         IN  [ repo |-> done.repo, ret |-> done.ret, raised |-> done.raised,
               escaped |-> FALSE ]
    ELSE [ repo |-> repo, ret |-> None, raised |-> FALSE, escaped |-> FALSE ]

\* The faults teardown meets where the file system works: every os.remove
\* and os.listdir goes through.
TeardownFaults(repo) == { NoFault }

\* Every fault teardown of exported packages kept (export) can meet on
\* repo: any of the tracked media files and of the records failing to be
\* removed, or the listing of cards/data failing.
ExportTeardownFaults(repo) ==
    { f \in { [ NoFault EXCEPT !.media = m, !.data = d ] :
                  m \in SUBSET Range(repo.media_files),
                  d \in SUBSET { r.id : r \in repo.dataDir } } :
          Cardinality(f.media) + Cardinality(f.data) <= MaxFaults }
    \cup { f \in { [ NoFault EXCEPT !.media = m, !.listdir = TRUE ] :
                      m \in SUBSET Range(repo.media_files) } :
              Cardinality(f.media) <= MaxFaults }

\* Every fault teardown(keep_exported_deck=False) can meet beyond those: any
\* of the packages failing to be removed, or the listing of cards failing.
AllTeardownFaults(repo, keep_exported_deck) ==
    IF keep_exported_deck THEN ExportTeardownFaults(repo)
    ELSE { h \in { [ f EXCEPT !.apkg = a ] :
                        f \in { g \in ExportTeardownFaults(repo) : ~g.listdir },
                        a \in SUBSET (1..Len(repo.apkgFiles)) } :
               Cardinality(h.media) + Cardinality(h.data) + Cardinality(h.apkg)
                   <= MaxFaults }
         \cup { [ f EXCEPT !.listdirCards = TRUE ] :
                   f \in { g \in ExportTeardownFaults(repo) : ~g.listdir } }
         \cup { f \in ExportTeardownFaults(repo) : f.listdir }

\* The entry point calls Orchestrator.export_deck (main thread); faults are
\* the faults teardown can meet, seconds the seconds the clock can show.
ExportDeckIn(faults, seconds) ==
    /\ Len(apkgFiles) < MaxExports
    /\ \E writeOk \in BOOLEAN, fault \in faults, now \in seconds :
         LET done == OrchestratorExport([ Repo EXCEPT !.now = now ], writeOk, fault)
             \* the fault teardown met, if the export got as far as teardown
             met == IF ExportAttempted(Repo) /\ WriteSucceeds(Repo, writeOk)
                    THEN fault ELSE NoFault
         IN  /\ SetRepo(done.repo)
             /\ last' = OpE("export_deck",
                            << ExportAttempted(Repo), WriteSucceeds(Repo, writeOk),
                               met, done.raised, now >>,
                            done.ret, done.escaped)
    /\ UNCHANGED << orchVars, nextShot, nextFile, nextCard, restarts, tempDir,
                    deck_name >>
    /\ UNCHANGED threadVars

ExportDeck == ExportDeckIn(TeardownFaults(Repo), { Repo.now })

\* The process ends and is started again on the same working directory: a new
\* Orchestrator with a new AnkiCardRepository.
Restart ==
    /\ restarts < MaxRestarts
    /\ restarts' = restarts + 1
    /\ \E order \in [ 1..Cardinality(dataDir) -> dataDir ] :
         /\ Range(order) = dataDir
         /\ LET fresh == RepositoryInit(order, mediaDir)
            IN  /\ notes' = fresh.notes
                /\ media_files' = fresh.media_files
    /\ captured_screenshots' = <<>>
    /\ pc' = "idle"
    /\ dlgScreenshots' = <<>>
    /\ mainPc' = "wait"
    /\ creating' = None
    /\ last' = Op("__init__", <<>>, None)
    /\ UNCHANGED << mediaDir, dataDir, apkgFiles, nextShot, nextFile, nextCard,
                    tempDir, deck_name >>

Next ==
    \/ CaptureHotkey
    \/ ResetHotkey
    \/ CreateCardHotkey
    \/ DlgAddScreenshot
    \/ DlgRemoveSelected
    \/ DlgSave
    \/ DlgCancel
    \/ ExportDeck
    \/ Restart

Spec == Init /\ [][Next]_vars

\* build_deck called on the Repository by itself.
BuildDeck ==
    /\ LET built == build_deck(Repo)
       IN  /\ SetRepo(built.repo)
           /\ last' = Op("build_deck", <<>>, built.deck)
    /\ UNCHANGED << orchVars, nextShot, nextFile, nextCard, restarts, tempDir,
                    deck_name >>
    /\ UNCHANGED threadVars

NextBuild == Next \/ BuildDeck

SpecBuild == Init /\ [][NextBuild]_vars

\* The Repository by itself where removing and listing files can fail: cards
\* of one screenshot created by calling create_and_save_card, the export
\* under every fault of its teardown, and teardown called with the exported
\* packages kept or not.
CreateCardCall ==
    /\ nextCard <= MaxCards
    /\ \E failAt \in 0..2 :
         LET made == create_and_save_card(Repo, <<"<">>, <<"&">>, << nextCard >>,
                                          nextFile, nextCard, failAt)
         IN  /\ SetRepo(made.repo)
             /\ nextFile' = nextFile + Len(made.repo.media_files) - Len(media_files)
             /\ nextCard' = IF failAt = 1 THEN nextCard ELSE nextCard + 1
             /\ last' = OpE("create_and_save_card", << failAt >>, made.ret, made.raised)
    /\ UNCHANGED << orchVars, nextShot, restarts, tempDir, deck_name >>
    /\ UNCHANGED threadVars

ExportDeckFaulty == ExportDeckIn(ExportTeardownFaults(Repo), { Repo.now })

TeardownCall ==
    /\ \E keep_exported_deck \in BOOLEAN :
         \E fault \in AllTeardownFaults(Repo, keep_exported_deck) :
            LET torn == teardown(Repo, keep_exported_deck, fault)
            IN  /\ SetRepo(torn.repo)
                /\ last' = OpE("teardown", << keep_exported_deck, fault, torn.raised >>,
                               None, torn.raised)
    /\ UNCHANGED << orchVars, nextShot, nextFile, nextCard, restarts, tempDir,
                    deck_name >>
    /\ UNCHANGED threadVars

NextFaults ==
    \/ CreateCardCall
    \/ ExportDeckFaulty
    \/ TeardownCall

SpecFaults == Init /\ [][NextFaults]_vars

\* The entry point from its start: main() resolves the deck name, then
\* constructs the Orchestrator with it, and the hotkeys are live.
InitMain ==
    /\ InitOrchestrator
    /\ deck_name = None

Main ==
    /\ deck_name = None
    /\ \E gui \in GuiOutcomes, console \in ConsoleInputs :
         LET resolved == ResolveDeckName(gui, console)
         IN  /\ deck_name' = Some(resolved.name)
             /\ last' = Op("main",
                           << gui, resolved.asked >>
                               \o (IF resolved.asked THEN << console >> ELSE << >>),
                           Some(resolved.name))
    /\ UNCHANGED << orchVars, repoVars, nextShot, nextFile, nextCard, restarts,
                    tempDir >>
    /\ UNCHANGED threadVars

NextMain ==
    \/ Main
    \/ (deck_name # None /\ Next)

SpecMain == InitMain /\ [][NextMain]_vars

\* A record this process did not write appears in cards/data: one left by an
\* older version (a single "screenshot", whose file is no longer in
\* cards/media) or one that is not readable JSON.
LegacyScreenshot == 0

ForeignRecord ==
    /\ nextCard <= MaxCards
    /\ \E foreign \in { LegacyCardData(nextCard, <<"<">>, <<"&">>, LegacyScreenshot),
                         MalformedCardData(nextCard) } :
         /\ dataDir' = dataDir \cup { foreign }
         /\ last' = Op("foreign_record", << foreign.shape >>, None)
    /\ nextCard' = nextCard + 1
    /\ UNCHANGED << orchVars, notes, media_files, mediaDir, apkgFiles, nextShot,
                    nextFile, restarts, tempDir, deck_name >>
    /\ UNCHANGED threadVars

NextRecords == Next \/ ForeignRecord

SpecRecords == Init /\ [][NextRecords]_vars

\* The capturing side alone, under everything the environment of a capture
\* can do: the hotkeys of the listener thread and the dialog up to its close
\* without a card.
CaptureHotkeyAny == CaptureHotkeyIn(CaptureEnvs)

DlgAddScreenshotAny == DlgAddScreenshotIn(CaptureEnvs)

NextCapture ==
    \/ CaptureHotkeyAny
    \/ ResetHotkey
    \/ CreateCardHotkey
    \/ DlgAddScreenshotAny
    \/ DlgRemoveSelected
    \/ DlgCancel

SpecCapture == Init /\ [][NextCapture]_vars

\* The dialog's Save over what the user can have typed into the answer
\* widget: nothing, a newline alone, text with a blank line inside and a
\* newline at its end, text with blanks around it.
AnswerTexts ==
    { <<>>, <<"\n">>, <<"x", "\n", "\n", "x", "\n">>, <<" ", "x", " ">> }

DlgSaveTyped == DlgSaveIn(AnswerTexts)

NextTyped ==
    \/ CaptureHotkey
    \/ CreateCardHotkey
    \/ DlgSaveTyped
    \/ DlgCancel

SpecTyped == Init /\ [][NextTyped]_vars

\* --------------------------------------------- the two threads, step by step

\* The process as its two threads run it: the listener thread inside a hotkey
\* callback, the main thread in main()'s wait loop and then in the export the
\* interrupt starts.  A capture and a create_card take several steps, and the
\* steps of the export and its teardown can fall between them.

\* the shortcuts a HotKey object is registered for, and its callback
Hotkeys ==
    [ capture |-> "capture_and_store_screenshot",
      create_card |-> "open_card_dialog",
      reset |-> "reset_screenshots" ]

\* the exit shortcut bound to the export (mutant)
Callback_ExitBound(shortcut) ==
    IF shortcut \in DOMAIN Hotkeys THEN Some(Hotkeys[shortcut])
    ELSE Some("export_deck")

\* on_key_press: the callback a pressed shortcut triggers, None if no HotKey
\* object is registered for it
Callback(shortcut) ==
    IF shortcut \in DOMAIN Hotkeys THEN Some(Hotkeys[shortcut]) ELSE None

\* the process has not ended
Running == mainPc # "exited"

\* The capture hotkey, first half: capture_and_store_screenshot is called and
\* blocks in the capture tool.
CaptureStart ==
    /\ Running
    /\ ListenerFree(pc)
    /\ Callback("capture") = Some("capture_and_store_screenshot")
    /\ nextShot <= MaxShots
    /\ pc' = "capturing"
    /\ last' = Op("capture_start", <<>>, None)
    /\ UNCHANGED << captured_screenshots, dlgScreenshots, repoVars, nextShot,
                    nextFile, nextCard, restarts, tempDir, deck_name, threadVars >>

\* The capture hotkey, second half: the capture tool ended and
\* capture_and_store_screenshot returns.
CaptureReturn ==
    /\ Running
    /\ pc = "capturing"
    /\ \E env \in UsualEnvs :
         LET got == get_screenshot(env, nextShot)
             shot == capture_screenshot(got)
         IN  /\ captured_screenshots' =
                    capture_and_store_screenshot(captured_screenshots, shot.ret)
             /\ nextShot' = IF shot.ret # None THEN nextShot + 1 ELSE nextShot
             /\ tempDir' = IF got.temp_exists THEN tempDir \cup { nextShot } ELSE tempDir
             /\ last' = OpE("capture_and_store_screenshot", << env, got >>,
                            shot.ret, shot.escaped)
    /\ pc' = "idle"
    /\ UNCHANGED << dlgScreenshots, repoVars, nextFile, nextCard, restarts,
                    deck_name, threadVars >>

\* The exit shortcut is pressed: on_key_press hands the key to the three
\* HotKey objects, and what is bound to the shortcut runs.
ExitShortcut ==
    /\ Running
    /\ ListenerFree(pc)
    /\ LET bound == Callback("exit")
       IN  IF bound = Some("export_deck")
           THEN LET done == OrchestratorExport(Repo, TRUE, NoFault)
                IN  /\ SetRepo(done.repo)
                    /\ last' = Op("exit_shortcut", << bound >>, done.ret)
           ELSE /\ last' = Op("exit_shortcut", << bound >>, None)
                /\ UNCHANGED repoVars
    /\ UNCHANGED << orchVars, nextShot, nextFile, nextCard, restarts, tempDir,
                    deck_name, threadVars >>

\* Save in the open dialog, accepted: get_flashcard_input returns the result,
\* open_card_dialog resets the buffer (line 181) and calls
\* create_and_save_card, whose local variables are creating.
SaveAccepted ==
    /\ Running
    /\ pc = "dialog"
    /\ nextCard <= MaxCards
    /\ LET result == on_save(<<"<">>, <<>>, dlgScreenshots)
       IN  /\ result # None
           /\ captured_screenshots' = BufferOnReturn(captured_screenshots, result)
           /\ creating' = Some([ question |-> result[1].question,
                                 answer |-> result[1].answer,
                                 screenshots |-> result[1].screenshots,
                                 filenames |-> <<>>,
                                 card_id |-> None,
                                 returned |-> FALSE ])
           /\ last' = Op("get_flashcard_input", <<>>, result)
    /\ pc' = "save_screenshots"
    /\ dlgScreenshots' = <<>>
    /\ UNCHANGED << repoVars, nextShot, nextFile, nextCard, restarts, tempDir,
                    deck_name, mainPc >>

\* save_screenshots: every screenshot saved under a fresh name and tracked
save_screenshots(repo, screenshots, file0) ==
    LET filenames == [ i \in 1..Len(screenshots) |-> file0 + i - 1 ]
    IN  [ repo |-> [ repo EXCEPT !.mediaDir = @ \cup Range(filenames),
                                 !.media_files = @ \o filenames ],
          filenames |-> filenames ]

\* create_card, line 181
CreateSaveScreenshots ==
    /\ Running
    /\ pc = "save_screenshots"
    /\ LET saved == save_screenshots(Repo, creating[1].screenshots, nextFile)
       IN  /\ SetRepo(saved.repo)
           /\ creating' = Some([ creating[1] EXCEPT !.filenames = saved.filenames ])
           /\ nextFile' = nextFile + Len(saved.filenames)
           /\ last' = Op("save_screenshots", <<>>, saved.filenames)
    /\ pc' = "notes_append"
    /\ UNCHANGED << captured_screenshots, dlgScreenshots, nextShot, nextCard,
                    restarts, tempDir, deck_name, mainPc >>

\* create_card, lines 184-202: the Note is built and appended to self.notes,
\* the list that attribute names at that moment
CreateAppendNote ==
    /\ Running
    /\ pc = "notes_append"
    /\ notes' = Append(notes, MakeNote(creating[1].question, creating[1].answer,
                                       creating[1].filenames))
    /\ creating' = Some([ creating[1] EXCEPT !.card_id = Some(nextCard) ])
    /\ last' = Op("notes_append", <<>>, None)
    /\ pc' = "write_record"
    /\ UNCHANGED << captured_screenshots, dlgScreenshots, media_files, mediaDir,
                    dataDir, apkgFiles, nextShot, nextFile, nextCard, restarts,
                    tempDir, deck_name, mainPc >>

\* create_card, lines 205-219: the record is written and the card id
\* returned; open_card_dialog returns
CreateWriteRecord ==
    /\ Running
    /\ pc = "write_record"
    /\ dataDir' = dataDir \cup { CardData(creating[1].card_id[1], creating[1].question,
                                          creating[1].answer, creating[1].filenames) }
    /\ creating' = Some([ creating[1] EXCEPT !.returned = TRUE ])
    /\ nextCard' = nextCard + 1
    /\ last' = Op("create_card", <<>>, creating[1].card_id)
    /\ pc' = "idle"
    /\ UNCHANGED << captured_screenshots, dlgScreenshots, notes, media_files,
                    mediaDir, apkgFiles, nextShot, nextFile, restarts, tempDir,
                    deck_name, mainPc >>

\* main(), lines 63-65: KeyboardInterrupt ends the wait loop and
\* Orchestrator.export_deck is called; with no Note held it returns at once
Interrupt ==
    /\ mainPc = "wait"
    /\ mainPc' = IF ExportAttempted(Repo) THEN "export_deck" ELSE "exiting"
    /\ last' = Op("interrupt", << ExportAttempted(Repo) >>, None)
    /\ UNCHANGED << orchVars, repoVars, nextShot, nextFile, nextCard, restarts,
                    tempDir, deck_name, creating >>

\* export_deck, lines 264-270: the deck is built and the package written with
\* the media files tracked at that moment; a write that fails raises, and
\* Orchestrator.export_deck returns without a path
ExportWrite ==
    /\ mainPc = "export_deck"
    /\ IF WriteSucceeds(Repo, TRUE)
       THEN /\ apkgFiles' = write_to_file(apkgFiles,
                                              ExportFilename(Repo.deck_name, Repo.now),
                                              Package(build_deck(Repo).deck, media_files))
            /\ mainPc' = "teardown_media"
            /\ last' = Op("write_to_file", <<>>,
                           Some(PathOf(apkgFiles', ExportFilename(Repo.deck_name, Repo.now))))
       ELSE /\ mainPc' = "exiting"
            /\ last' = Op("write_to_file", <<>>, None)
            /\ UNCHANGED apkgFiles
    /\ UNCHANGED << orchVars, notes, media_files, mediaDir, dataDir, nextShot,
                    nextFile, nextCard, restarts, tempDir, deck_name, creating >>

\* teardown, lines 289-297: the media files tracked at that moment are removed
TeardownMedia ==
    /\ mainPc = "teardown_media"
    /\ mediaDir' = mediaDir \ Range(media_files)
    /\ mainPc' = "teardown_data"
    /\ last' = Op("teardown_media", <<>>, None)
    /\ UNCHANGED << orchVars, notes, media_files, dataDir, apkgFiles, nextShot,
                    nextFile, nextCard, restarts, tempDir, deck_name, creating >>

\* teardown, lines 299-306: the records listed at that moment are removed
TeardownData ==
    /\ mainPc = "teardown_data"
    /\ dataDir' = {}
    /\ mainPc' = "teardown_reset"
    /\ last' = Op("teardown_data", <<>>, None)
    /\ UNCHANGED << orchVars, notes, media_files, mediaDir, apkgFiles, nextShot,
                    nextFile, nextCard, restarts, tempDir, deck_name, creating >>

\* teardown, lines 318-320: self.notes and self.media_files are assigned new
\* empty lists
TeardownReset ==
    /\ mainPc = "teardown_reset"
    /\ notes' = <<>>
    /\ media_files' = <<>>
    /\ mainPc' = "exiting"
    /\ last' = Op("teardown_reset", <<>>, None)
    /\ UNCHANGED << orchVars, mediaDir, dataDir, apkgFiles, nextShot, nextFile,
                    nextCard, restarts, tempDir, deck_name, creating >>

\* main(), line 66 and the return: the process ends, and the listener thread,
\* a daemon thread, with it
Exit ==
    /\ mainPc = "exiting"
    /\ mainPc' = "exited"
    /\ last' = Op("exit", <<>>, None)
    /\ UNCHANGED << orchVars, repoVars, nextShot, nextFile, nextCard, restarts,
                    tempDir, deck_name, creating >>

NextThreads ==
    \/ CaptureStart
    \/ CaptureReturn
    \/ (Running /\ ResetHotkey)
    \/ (Running /\ CreateCardHotkey)
    \/ (Running /\ DlgAddScreenshot)
    \/ (Running /\ DlgRemoveSelected)
    \/ (Running /\ DlgCancel)
    \/ SaveAccepted
    \/ CreateSaveScreenshots
    \/ CreateAppendNote
    \/ CreateWriteRecord
    \/ ExitShortcut
    \/ Interrupt
    \/ ExportWrite
    \/ TeardownMedia
    \/ TeardownData
    \/ TeardownReset
    \/ Exit
    \/ (mainPc = "exited" /\ Restart)

SpecThreads == Init /\ [][NextThreads]_vars

\* The Repository driven by calls that follow each other as fast as a caller
\* can make them: cards created by create_and_save_card, directly or from
\* the dialog, and exports, the clock showing to an export the second of the
\* last package written or a later one.
SameOrLaterSecond(files) ==
    { t \in { LaterSecond(files) - 1, LaterSecond(files) } : t >= 1 }

ExportDeckAnySecond ==
    ExportDeckIn(TeardownFaults(Repo), SameOrLaterSecond(apkgFiles))

NextClock ==
    \/ CreateCardCall
    \/ CaptureHotkey
    \/ CreateCardHotkey
    \/ DlgSave
    \/ ExportDeckAnySecond

SpecClock == Init /\ [][NextClock]_vars


\* ------------------------------------------------------------------ claims

\* the Note a JSON record stands for: its raw fields through the same pipeline
NoteOf(card_data) ==
    MakeNote(card_data.question, card_data.answer, card_data.screenshots)

\* the step is one of the named operation
Did(name) == last'.op = name

\* C1 (as claimed): right after a restart on the same working directory, the
\* Note list holds, for every card record on disk (a card created and not yet
\* exported), the Note with the escaped question, the escaped and rendered
\* answer and the <img> tags of the record's screenshots in order.
C1_RestartRecoversNotes ==
    (last.op = "__init__" /\ restarts > 0)
        => \A r \in dataDir : NoteOf(r) \in Range(notes)

\* C2 (as claimed): every card record a step removes from disk is removed by
\* an export that wrote a package, and that package holds the card's Note.
C2_DeletedRecordsWereExported ==
    [][ \A r \in dataDir \ dataDir' :
            /\ Len(apkgFiles') = Len(apkgFiles) + 1
            /\ NoteOf(r) \in Range(apkgFiles'[Len(apkgFiles')].notes) ]_vars

\* C3 (as claimed): after a successful export the Note list and the tracked
\* media files are empty, no JSON record is left, every screenshot file the
\* records referenced is gone from the media directory, and the package
\* just written exists.
C3_ExportClearsWorkingState ==
    [][ (Did("export_deck") /\ last'.ret # None)
            => /\ notes' = <<>>
               /\ media_files' = <<>>
               /\ dataDir' = {}
               /\ \A r \in dataDir : Range(r.screenshots) \cap mediaDir' = {}
               /\ Len(apkgFiles') = Len(apkgFiles) + 1
               /\ last'.ret = Some(Len(apkgFiles')) ]_vars

\* C4: when the Repository's export is called and writing the package fails,
\* teardown does not run: the Note list, the tracked media files, the JSON
\* records and the media files are as before, and no path is returned.
C4_FailedWriteKeepsState ==
    [][ (Did("export_deck") /\ last'.arg[1] /\ ~last'.arg[2])
            => /\ UNCHANGED << notes, media_files, dataDir, mediaDir >>
               /\ last'.ret = None ]_vars

\* C4 witness: a failed package write with Notes, records and media at stake
C4_Witness ==
    /\ last.op = "export_deck" /\ last.arg[1] /\ ~last.arg[2]
    /\ notes # <<>> /\ dataDir # {} /\ mediaDir # {}

\* C5: an Orchestrator export with zero Notes does not call the Repository's
\* export, creates no package, deletes no working file and returns no path.
C5_NoNotesNoExport ==
    [][ (Did("export_deck") /\ Len(notes) = 0)
            => /\ ~last'.arg[1]
               /\ UNCHANGED << notes, media_files, dataDir, mediaDir, apkgFiles >>
               /\ last'.ret = None ]_vars

\* C5 witness: an export skipped with zero Notes while records and media of an
\* earlier process are on disk
C5_Witness ==
    /\ last.op = "export_deck" /\ ~last.arg[1] /\ last.ret = None
    /\ notes = <<>> /\ dataDir # {} /\ mediaDir # {}

C7_DialogCardsValid ==
    [][ Did("on_save")
            => \A r \in dataDir' \ dataDir :
                   /\ r.question # <<>>
                   /\ Strip(r.question) = r.question
                   /\ Len(r.screenshots) >= 1 ]_vars

\* C7 witness: a card persisted with a trimmed question and two screenshots
\* that were not captured one after the other (the dialog added or removed one)
C7_Witness ==
    /\ last.op = "on_save" /\ last.ret.card_id # None
    /\ last.arg[1] = <<" ", "<", " ">>
    /\ last.ret.result[1].screenshots = <<1, 3>>
    /\ \E r \in dataDir : /\ r.id = last.ret.card_id[1]
                          /\ r.question = <<"<">>
                          /\ Len(r.screenshots) = 2

\* C8: Save with a question that is empty after trimming, or with zero
\* screenshots, leaves the dialog open with no result and creates no card;
\* any other Save sets the result and closes the dialog.
C8_SaveValidates ==
    [][ Did("on_save")
            => IF Strip(last'.arg[1]) = <<>> \/ dlgScreenshots = <<>>
               THEN /\ pc' = "dialog"
                    /\ last'.ret.result = None
                    /\ last'.ret.card_id = None
                    /\ UNCHANGED << dlgScreenshots, captured_screenshots, notes,
                                    media_files, dataDir, mediaDir, apkgFiles >>
               ELSE /\ pc' = "idle"
                    /\ last'.ret.result # None
                    /\ last'.ret.result[1].question = Strip(last'.arg[1])
                    /\ last'.ret.result[1].screenshots = dlgScreenshots ]_vars

\* C8 witness: Save rejected for a whitespace-only question with screenshots
\* present; the dialog is still open
C8_Witness ==
    /\ last.op = "on_save" /\ last.arg[1] = <<" ">> /\ last.ret.result = None
    /\ pc = "dialog" /\ dlgScreenshots # <<>>

\* C9: a successful capture-hotkey invocation appends the captured screenshot
\* at the end of the buffer and changes nothing else in it.
C9_CaptureAppends ==
    [][ (Did("capture_and_store_screenshot") /\ last'.ret # None)
            => captured_screenshots' = Append(captured_screenshots, last'.ret[1]) ]_vars

\* C9 witness: a capture appended to a buffer that already held screenshots
C9_Witness ==
    /\ last.op = "capture_and_store_screenshot" /\ last.ret # None
    /\ Len(captured_screenshots) >= 3

\* C10: a reset-hotkey invocation leaves the buffer empty whatever it held,
\* and changes nothing of the Repository or its files.
C10_ResetEmpties ==
    [][ Did("reset_screenshots")
            => /\ captured_screenshots' = <<>>
               /\ UNCHANGED << notes, media_files, dataDir, mediaDir, apkgFiles >> ]_vars

\* C10 witness: a reset of a buffer of two or more screenshots, with a card in
\* the Repository
C10_Witness ==
    /\ last.op = "reset_screenshots" /\ last.arg[1] >= 2
    /\ captured_screenshots = <<>> /\ notes # <<>>

C12_MalformedSkippedOthersLoaded ==
    (/\ last.op = "__init__" /\ restarts > 0
     /\ \E r \in dataDir : r.shape = "malformed")
        => /\ \A r \in dataDir : r.shape # "malformed" => NoteOf(r) \in Range(notes)
           /\ Len(notes) = Cardinality({ r \in dataDir : r.shape # "malformed" })

\* C13 (as claimed): right after a start, every legacy record on disk has its
\* Note in the Note list, the Screenshots field being the one <img> tag of
\* the record's screenshot.
C13_LegacyRecordLoaded ==
    (last.op = "__init__" /\ restarts > 0)
        => \A r \in dataDir :
               r.shape = "legacy"
                   => \E i \in 1..Len(notes) :
                          /\ notes[i].Question = html_escape(r.question)
                          /\ notes[i].Screenshots = ImgTag(r.screenshots[1])

\* C14: an error raised by a capture, by persisting a card or by the
\* Repository's export does not leave the Orchestrator operation: the capture
\* returns no image, the persistence step ends with the listener idle, the
\* export returns no path, and none of them lets the exception out.
C14_ErrorsStayInside ==
    [][ /\ (Did("capture_and_store_screenshot") \/ Did("on_add_screenshot"))
            => /\ ~last'.escaped
               /\ last'.arg[2].raised => last'.ret = None
        /\ Did("on_save")
            => /\ ~last'.escaped
               /\ last'.ret.raised => (last'.ret.card_id = None /\ pc' = "idle")
        /\ Did("export_deck")
            => /\ ~last'.escaped
               /\ last'.arg[4] => last'.ret = None ]_vars

\* C14 witness: create_and_save_card raised while writing the record (the
\* Note is already appended), and open_card_dialog returned normally
C14_Witness ==
    /\ last.op = "on_save" /\ last.ret.raised /\ ~last.escaped
    /\ last.ret.card_id = None /\ notes # <<>> /\ pc = "idle"

C16_GuiErrorAsksConsole ==
    (last.op = "main" /\ last.arg[1].kind = "error")
        => /\ last.arg[2]
           /\ deck_name = Some(get_deck_name_fallback(last.arg[3]))

\* C17: build_deck changes nothing of the Repository or its files and
\* returns the deck with the fixed id, the Repository's deck name and the
\* Notes of the Note list in order; called again with nothing in between it
\* returns the same deck.
C17_BuildDeckReadOnly ==
    [][ Did("build_deck")
            => /\ UNCHANGED << notes, media_files, mediaDir, dataDir, apkgFiles >>
               /\ last'.ret = [ deck_id |-> ANKI_DECK_ID, name |-> deck_name[1],
                                notes |-> notes ]
               /\ last.op = "build_deck" => last'.ret = last.ret ]_vars

\* C17 witness: build_deck returned a deck of two Notes and the two Notes and
\* their media files are still in the Repository
C17_Witness ==
    /\ last.op = "build_deck" /\ Len(last.ret.notes) = 2
    /\ notes = last.ret.notes /\ Len(media_files) >= 2

\* teardown ran in the step: called by itself, or by an export after the
\* package was written
TeardownRan ==
    \/ Did("teardown")
    \/ (Did("export_deck") /\ last'.arg[1] /\ last'.arg[2])

\* C18 (as claimed): whenever teardown runs, the Note list and the tracked
\* media files are empty afterwards, whatever removal or listing failed.
C18_TeardownAlwaysResets ==
    [][ TeardownRan => (notes' = <<>> /\ media_files' = <<>>) ]_vars

\* C18 (amended): whenever teardown runs and listing the directories works,
\* the Note list and the tracked media files are empty afterwards whichever
\* removals failed, and the files whose removal failed are still on disk;
\* when listing cards/data (or cards, the packages not being kept) fails,
\* teardown raises and the Note list and the tracked media files are as
\* before.
C18_TeardownResetsUnlessListingFails ==
    [][ TeardownRan
            => LET keep_exported_deck == Did("export_deck") \/ last'.arg[1]
                   fault == IF Did("teardown") THEN last'.arg[2] ELSE last'.arg[3]
                   raised == IF Did("teardown") THEN last'.arg[3] ELSE last'.arg[4]
                   listingFailed == \/ fault.listdir
                                    \/ (~keep_exported_deck /\ fault.listdirCards)
               IN  IF listingFailed
                   THEN /\ raised
                        /\ notes' = notes /\ media_files' = media_files
                   ELSE /\ ~raised
                        /\ notes' = <<>> /\ media_files' = <<>>
                        /\ fault.media \cap mediaDir \subseteq mediaDir'
                        /\ { r.id : r \in dataDir' } = fault.data ]_vars

\* C18 witness: teardown could not remove a tracked media file, which is
\* still on disk, and the Note list and the tracked media files were reset
C18_Witness ==
    /\ last.op = "teardown" /\ ~last.arg[3]
    /\ last.arg[2].media # {} /\ last.arg[2].media \subseteq mediaDir
    /\ notes = <<>> /\ media_files = <<>> /\ dataDir = {}

\* C19: when a get_screenshot call has ended, whichever way (image returned,
\* tool missing, probe failed, capture left nothing usable, decode failure),
\* the temporary file of the call does not exist: no step leaves a capture
\* file in the temporary directory.
C19_TempFileRemoved ==
    [][ (Did("capture_and_store_screenshot") \/ Did("on_add_screenshot"))
            => /\ ~last'.arg[2].temp_exists
               /\ tempDir' = {} ]_vars

\* C19 witness: the capture left a file that could not be decoded,
\* get_screenshot raised, and no temporary file is left
C19_Witness ==
    /\ last.op = "capture_and_store_screenshot"
    /\ last.arg[1].output = "garbage" /\ last.arg[2].ran /\ last.arg[2].raised
    /\ tempDir = {}

\* C20 (as claimed): get_screenshot returns an image only when the tool is
\* there, the capture command exited with 0 and left a non-empty, decodable
\* file; in every other case it raises and returns nothing; and the capture
\* command is not run when the probe did not succeed.
C20_ImageOnlyWithoutFailure ==
    (last.op \in { "capture_and_store_screenshot", "on_add_screenshot" })
        => LET env == last.arg[1]
               got == last.arg[2]
           IN  /\ (env.probe # "ok" \/ env.exit # 0 \/ env.output # "image")
                       => (got.raised /\ got.ret = None)
               /\ env.probe # "ok" => ~got.ran

\* C21: whenever create_card returns a card id, the record <id>.json is in
\* cards/data (the only one of that id) and holds the question and the answer
\* as the dialog returned them, neither escaped nor rendered, and one file
\* name per screenshot given; these files were written by this call in the
\* order of the screenshots, and every one of them is in cards/media.
C21_RecordWrittenBeforeReturn ==
    [][ (Did("on_save") /\ last'.ret.card_id # None)
            => LET result == last'.ret.result[1]
                   card_id == last'.ret.card_id[1]
                   records == { r \in dataDir' : r.id = card_id }
               IN  /\ Cardinality(records) = 1
                   /\ \A r \in records :
                        /\ r.shape = "new"
                        /\ r.question = result.question
                        /\ r.answer = result.answer
                        /\ Len(r.screenshots) = Len(result.screenshots)
                        /\ notes'[Len(notes')].Screenshots = ScreenshotsHtml(r.screenshots)
                        /\ \A i \in 1..Len(r.screenshots) :
                             /\ r.screenshots[i] \notin mediaDir
                             /\ r.screenshots[i] \in mediaDir'
                             /\ \A j \in 1..(i - 1) :
                                  r.screenshots[j] < r.screenshots[i] ]_vars

\* C21 witness: a card of two screenshots whose question escaping changes was
\* created, and its record and both files are on disk
C21_Witness ==
    /\ last.op = "on_save" /\ last.ret.card_id # None
    /\ last.ret.result[1].question = <<"<">>
    /\ html_escape(last.ret.result[1].question) # last.ret.result[1].question
    /\ Len(last.ret.result[1].screenshots) = 2
    /\ \E r \in dataDir : /\ r.id = last.ret.card_id[1]
                          /\ Len(r.screenshots) = 2
                          /\ Range(r.screenshots) \subseteq mediaDir

\* the screenshot files the <img> tags of a Note's Screenshots field name
ReferencedFiles(note) ==
    { note.Screenshots[i] :
          i \in { k \in 1..Len(note.Screenshots) : k % 3 = 2 } }

\* C22: when export_deck writes a package, the tracked media files cover
\* every screenshot file the held Notes reference, and the package holds the
\* held Notes and, for each of them, every file its Screenshots field
\* references, each of these files being in cards/media.
C22_PackageBundlesScreenshots ==
    [][ (Did("export_deck") /\ Len(apkgFiles') > Len(apkgFiles))
            => LET package == apkgFiles'[Len(apkgFiles')]
               IN  /\ \A i \in 1..Len(notes) :
                        ReferencedFiles(notes[i]) \subseteq Range(media_files)
                   /\ package.notes = notes
                   /\ \A i \in 1..Len(package.notes) :
                        /\ ReferencedFiles(package.notes[i]) # {}
                        /\ ReferencedFiles(package.notes[i]) \subseteq Range(package.media)
                        /\ ReferencedFiles(package.notes[i]) \subseteq mediaDir ]_vars

\* C22 witness: a package of two Notes was written, one of them with two
\* screenshots, and it bundles three media files
C22_Witness ==
    /\ last.op = "export_deck" /\ last.ret # None
    /\ LET package == apkgFiles[last.ret[1]]
       IN  /\ Len(package.notes) = 2
           /\ \E i \in 1..2 : Cardinality(ReferencedFiles(package.notes[i])) = 2
           /\ Len(package.media) = 3

\* C23: on an accepted Save the answer the dialog returns is what the user
\* typed into the text widget, character for character: the newline the
\* widget adds when it is read is removed, and blank lines inside the text and
\* newlines typed at its end are kept.
C23_AnswerKeepsTypedText ==
    [][ (Did("on_save") /\ last'.ret.result # None)
            => LET content == last'.arg[2]
                   answer == last'.ret.result[1].answer
               IN  /\ answer = content
                   /\ answer \o <<"\n">> = TextGet(content) ]_vars

\* C23 witness: Save was accepted with an answer that has a blank line inside
\* and a newline typed at its end, and the answer returned still ends in it
C23_Witness ==
    /\ last.op = "on_save" /\ last.ret.result # None
    /\ last.arg[2] = <<"x", "\n", "\n", "x", "\n">>
    /\ last.ret.result[1].answer[5] = "\n"
    /\ Len(last.ret.result[1].answer) = 5

\* C24 (as claimed): within one process the Note list changes only by one
\* Note appended at its end by a create_card that succeeded (returned a card
\* id), and by being emptied as a whole by teardown; no step removes or
\* reorders single Notes.
C24_NotesAppendOnly ==
    [][ ~Did("__init__")
            => \/ notes' = notes
               \/ /\ Did("on_save")
                  /\ last'.ret.card_id # None
                  /\ notes' = Append(notes, MakeNote(last'.ret.result[1].question,
                                                     last'.ret.result[1].answer,
                                                     SubSeq(media_files', Len(media_files) + 1,
                                                            Len(media_files'))))
               \/ /\ Did("export_deck")
                  /\ last'.arg[1] /\ last'.arg[2]
                  /\ notes' = <<>> ]_vars

\* C26: Remove Selected leaves the dialog's screenshots equal to the
\* previously held screenshots whose checkbox was unchecked, in their
\* original relative order; with nothing checked they are unchanged.
C26_RemoveKeepsUnchecked ==
    [][ Did("on_remove_screenshot")
            => LET selected == last'.arg[1]
                   unchecked == (1..Len(dlgScreenshots)) \ selected
               IN  /\ dlgScreenshots' = SubSeqAt(dlgScreenshots, unchecked)
                   /\ Len(dlgScreenshots') = Cardinality(unchecked)
                   /\ selected = {} => dlgScreenshots' = dlgScreenshots ]_vars

\* C26 witness: of three screenshots the first two were checked and removed,
\* the third is left
C26_Witness ==
    /\ last.op = "on_remove_screenshot"
    /\ last.arg[1] = {1, 2}
    /\ dlgScreenshots = <<3>>

\* C27: when the create-card hotkey fires while the Pending Capture Buffer is
\* empty, no dialog is opened, no card is persisted, and the buffer and the
\* whole Repository state (Note list, tracked media files, media files,
\* records, packages) are unchanged.
C27_EmptyBufferNoDialog ==
    [][ (Did("open_card_dialog") /\ captured_screenshots = <<>>)
            => /\ last'.ret = None
               /\ pc' = "idle" /\ dlgScreenshots' = <<>>
               /\ captured_screenshots' = <<>>
               /\ UNCHANGED << repoVars, nextFile, nextCard >> ]_vars

\* C27 witness: the create-card hotkey fired on an empty buffer while the
\* Repository held a Note, and no dialog is open
C27_Witness ==
    /\ last.op = "open_card_dialog" /\ last.ret = None
    /\ captured_screenshots = <<>> /\ pc = "idle"
    /\ notes # <<>> /\ dataDir # {}

\* C28: a dialog that is cancelled persists nothing, whatever Add Screenshot
\* and Remove Selected steps happened in it: none of these steps and not the
\* cancelling itself changes the Note list, the tracked media files, the
\* media directory, the card records or the packages, and the cancelled
\* dialog leaves open_card_dialog without a card.
C28_CancelPersistsNothing ==
    [][ (Did("on_add_screenshot") \/ Did("on_remove_screenshot") \/ Did("on_cancel"))
            => /\ UNCHANGED << notes, media_files, mediaDir, dataDir, apkgFiles >>
               /\ UNCHANGED << nextFile, nextCard >>
               /\ Did("on_cancel") => (last'.ret = None /\ pc' = "idle") ]_vars

\* C28 witness: while the Repository held a Note, a dialog opened on one
\* screenshot was cancelled after a screenshot had been added in it
C28_Witness ==
    /\ last.op = "on_cancel" /\ pc = "idle"
    /\ notes # <<>> /\ dataDir # {} /\ mediaDir # {}
    /\ Len(captured_screenshots) = 1
    /\ nextShot > captured_screenshots[1] + 1

\* the operations that start a hotkey callback on the listener thread
CallbackStarts == { "capture_start", "reset_screenshots", "open_card_dialog" }

\* the steps of the main thread
MainThreadSteps ==
    { "interrupt", "write_to_file", "teardown_media", "teardown_data",
      "teardown_reset", "exit" }

\* C25: within a process the Pending Capture Buffer is written only by hotkey
\* callbacks on the listener thread (the capture callback when the capture
\* returned, the reset callback, the create-card callback when its dialog
\* returned a result), and the callbacks run one at a time: while one has not
\* returned (it is blocked in the open dialog, in a capture or in
\* create_card), no hotkey callback starts, and no step of the main thread
\* changes the buffer.
C25_BufferOnlyBySerialCallbacks ==
    [][ ~Did("__init__")
            => /\ captured_screenshots' # captured_screenshots
                    => \/ Did("capture_and_store_screenshot") /\ pc = "capturing"
                       \/ Did("reset_screenshots") /\ pc = "idle"
                       \/ Did("get_flashcard_input") /\ pc = "dialog"
               /\ pc # "idle" => last'.op \notin CallbackStarts
               /\ last'.op \in MainThreadSteps
                    => UNCHANGED << captured_screenshots, pc, dlgScreenshots >> ]_vars

\* C25 witness: the create-card callback is blocked in its open dialog, the
\* buffer holding a screenshot, while the main thread is inside teardown
C25_Witness ==
    /\ pc = "dialog" /\ captured_screenshots # <<>>
    /\ mainPc = "teardown_data" /\ last.op = "teardown_media"

C30_CompletedCardSurvivesExport ==
    (mainPc = "exited" /\ creating # None /\ creating[1].returned)
        => /\ \/ \E i \in 1..Len(apkgFiles) :
                    /\ \E k \in 1..Len(apkgFiles[i].notes) :
                          apkgFiles[i].notes[k] =
                              MakeNote(creating[1].question, creating[1].answer,
                                       creating[1].filenames)
                    /\ Range(creating[1].filenames) \subseteq Range(apkgFiles[i].media)
              \/ /\ \E r \in dataDir : r.id = creating[1].card_id[1]
                 /\ Range(creating[1].filenames) \subseteq mediaDir
           /\ \A r \in dataDir : Range(r.screenshots) \subseteq mediaDir

\* C31 (as claimed): create_card is all-or-nothing: when it fails (a
\* screenshot cannot be saved, or the JSON record cannot be written), the
\* Note list, the tracked media files, the media directory and the card
\* records are the same as before the call.
C31_CreateCardAllOrNothing ==
    [][ (Did("on_save") /\ last'.ret.result # None /\ last'.ret.raised)
            => UNCHANGED << notes, media_files, mediaDir, dataDir >> ]_vars

\* C32: the dialog works on its own copy of the captured screenshots: Add
\* Screenshot and Remove Selected in the open dialog leave the Pending Capture
\* Buffer as it was, and the card persisted on Save is made of the dialog's
\* final screenshots in their order: one file per screenshot, saved in that
\* order, named in that order by the record and by the Note's <img> tags.
C32_DialogWorksOnCopy ==
    [][ /\ (Did("on_add_screenshot") \/ Did("on_remove_screenshot"))
             => captured_screenshots' = captured_screenshots
        /\ (Did("on_save") /\ last'.ret.card_id # None)
             => /\ last'.ret.result[1].screenshots = dlgScreenshots
                /\ \E r \in dataDir' :
                     /\ r.id = last'.ret.card_id[1]
                     /\ r.screenshots = [ i \in 1..Len(dlgScreenshots) |-> nextFile + i - 1 ]
                     /\ r.screenshots = SubSeq(media_files', Len(media_files) + 1,
                                               Len(media_files'))
                     /\ notes'[Len(notes')].Screenshots = ScreenshotsHtml(r.screenshots) ]_vars

\* C32 witness: a card was persisted from a dialog whose final screenshots,
\* the first and the third captured, are not what any buffer has held, and
\* its record names two files
C32_Witness ==
    /\ last.op = "on_save" /\ last.ret.card_id # None
    /\ last.ret.result[1].screenshots = <<1, 3>>
    /\ \E r \in dataDir : r.id = last.ret.card_id[1] /\ Len(r.screenshots) = 2

\* C33 (as claimed): over card creations and exports within one process, a
\* Note is in exactly one exported package, the one written by the first
\* successful export after its card was created: an export that returns a
\* path has written a new package that holds every Note held before it and
\* has left every earlier package as it was, no Note is in two packages or
\* both held and in a package, and an export with no Note held writes no
\* package.
C33_EachNoteInOnePackage ==
    [][ /\ \A i \in 1..Len(apkgFiles) :
             /\ Range(apkgFiles[i].notes) \cap Range(notes) = {}
             /\ \A j \in 1..Len(apkgFiles) :
                  i # j => Range(apkgFiles[i].notes) \cap Range(apkgFiles[j].notes) = {}
        /\ (Did("export_deck") /\ last'.ret # None)
             => /\ Len(apkgFiles') = Len(apkgFiles) + 1
                /\ apkgFiles'[Len(apkgFiles')].notes = notes
                /\ \A i \in 1..Len(apkgFiles) : apkgFiles'[i] = apkgFiles[i]
                /\ notes' = <<>>
        /\ (Did("export_deck") /\ notes = <<>>)
             => (last'.ret = None /\ apkgFiles' = apkgFiles) ]_vars

====
